---- MODULE Spec2Model ----
(***************************************************************************)
(* Model of the storage-optimization simulator: the two-tier instances of  *)
(* src/src/two_tier.rs, the driver variant of src/src/main.rs, the         *)
(* three-tier instances of src/src/three_tier.rs, the Simulator, the       *)
(* competitive-ratio calculators, and an instance ticked directly through  *)
(* trait Algorithm.                                                        *)
(*                                                                         *)
(* u64 values are naturals; every value the model reaches is far below     *)
(* 2^64, so the only width effect is the underflow of a subtraction, which *)
(* is modelled explicitly (panic with overflow checks, wrap without).      *)
(* f64 costs are exact multiples of 1/Scale and are held as integers       *)
(* counting units of 1/Scale.                                              *)
(***************************************************************************)
EXTENDS Integers, Sequences, FiniteSets, TLC

VARIABLES
    pc,            \* position in the calculator / driver function
    args,          \* the function's arguments (costs, access_list, num_ticks)
    instance,      \* the online instance handed to / built by the calculator
    sim,           \* the current Simulator {t, access, node}
    tick_calls,    \* history: the access flags passed to node.tick by this Simulator
    offline_cost,  \* local offline_cost
    online_cost,   \* local online_cost
    ratio          \* the returned f64, kept as the pair it is the quotient of

vars == <<pc, args, instance, sim, tick_calls, offline_cost, online_cost, ratio>>

----------------------------------------------------------------------------
(* Bounds of the model.                                                    *)

\* largest keep_cost enumerated for the two-tier calculator
MaxKeep == 2
\* largest recover_cost enumerated
MaxRecover == 3
\* largest tick index that may occur in an enumerated access trace
MaxTick == 5
\* largest num_ticks enumerated
MaxNumTicks == 6

----------------------------------------------------------------------------
(* Access traces: strictly increasing sequences of positive ticks          *)
(* (generate_access_list sorts and dedups a vector drawn from 1..=max).    *)

RECURSIVE SortedSeq(_)
SortedSeq(S) ==
    IF S = {} THEN <<>>
    ELSE LET m == CHOOSE x \in S : \A y \in S : x <= y
         IN  <<m>> \o SortedSeq(S \ {m})

generate_access_list(max_value) == { SortedSeq(S) : S \in SUBSET (1..max_value) }

\* Vec::contains
Contains(v, x) == \E i \in 1..Len(v) : v[i] = x

\* Vec::last().unwrap() of a non-empty vector
Last(v) == v[Len(v)]

----------------------------------------------------------------------------
(* karlin::sample: rejection sampling draws rand_x uniformly from 0..=cost *)
(* and accepts it with probability pdf(rand_x,cost)/pdf(cost,cost) > 0, so *)
(* every value of 0..cost can be returned.  For cost = 0 the pdf is NaN,   *)
(* no draw is accepted and the function panics after max_iters draws: the  *)
(* set of results is empty.  (For cost >= 1 the draw rand_x = cost is      *)
(* always accepted; 10,000 consecutive rejections are not modelled.)       *)

\* mutant of sample: the draw is taken from 0..=cost+1
sample_beyond(cost) == IF cost >= 1 THEN 0..(cost + 1) ELSE {}

sample(cost) == IF cost >= 1 THEN 0..cost ELSE {}

----------------------------------------------------------------------------
(* src/src/two_tier.rs                                                     *)

two_tier_OfflineInstance_new(keep_cost, recover_cost, access_list) ==
    [type |-> "two_tier::OfflineInstance", t |-> 0, access_list |-> access_list,
     keep_cost |-> keep_cost, recover_cost |-> recover_cost,
     accrued_cost |-> 0, policy |-> "Keep"]

\* `elem - self.t` underflows (two_tier.rs:43, main.rs:173)
OfflineInstance_underflows(self) ==
    /\ self.policy = "Keep"
    /\ self.access_list # <<>>
    /\ Head(self.access_list) < self.t + 1

\* mutant of OfflineInstance_lookahead: `<=` for `>=` in the comparison with
\* recover_cost, so the instance discards when the next access is near
OfflineInstance_lookahead_le(self, t) ==
    IF self.policy = "Keep" /\ self.access_list # <<>>
    THEN LET elem == Head(self.access_list)
             discard == IF elem >= t THEN elem - t <= self.recover_cost ELSE FALSE
         IN  IF discard THEN "Discard" ELSE "Keep"
    ELSE self.policy

\* the match at two_tier.rs:41-49: the policy after the look-ahead step.
\* A wrapped difference is at least 2^64 - t, above every recover_cost here.
OfflineInstance_lookahead(self, t) ==
    IF self.policy = "Keep" /\ self.access_list # <<>>
    THEN LET elem == Head(self.access_list)
             discard == IF elem >= t THEN elem - t >= self.recover_cost ELSE TRUE
         IN  IF discard THEN "Discard" ELSE "Keep"
    ELSE self.policy

\* mutant of two_tier_OfflineInstance_tick: keep_cost is charged for the policy
\* the tick started with, before the look-ahead step
two_tier_OfflineInstance_tick_charge_first(self, access) ==
    LET t == self.t + 1
        policy == OfflineInstance_lookahead(self, t)
    IN  IF ~access
        THEN [self EXCEPT !.t = t, !.policy = policy,
                          !.accrued_cost = IF self.policy = "Keep" THEN @ + self.keep_cost ELSE @]
        ELSE [self EXCEPT !.t = t,
                          !.access_list = IF @ = <<>> THEN @ ELSE Tail(@),
                          !.accrued_cost = IF policy = "Discard" THEN @ + self.recover_cost ELSE @,
                          !.policy = "Keep"]

two_tier_OfflineInstance_tick(self, access) ==
    LET t == self.t + 1
        policy == OfflineInstance_lookahead(self, t)
    IN  IF ~access
        THEN [self EXCEPT !.t = t, !.policy = policy,
                          !.accrued_cost = IF policy = "Keep" THEN @ + self.keep_cost ELSE @]
        ELSE [self EXCEPT !.t = t,
                          !.access_list = IF @ = <<>> THEN @ ELSE Tail(@),
                          !.accrued_cost = IF policy = "Discard" THEN @ + self.recover_cost ELSE @,
                          !.policy = "Keep"]

two_tier_NaiveInstance_new(keep_cost, recover_cost) ==
    [type |-> "two_tier::NaiveInstance", t |-> 0, last_access |-> 0,
     keep_cost |-> keep_cost, recover_cost |-> recover_cost,
     policy |-> "Keep", accrued_cost |-> 0]

\* mutant of two_tier_NaiveInstance_tick: `>` for `>=` in should_discard
two_tier_NaiveInstance_tick_gt(self, access) ==
    LET t == self.t + 1
        should_discard == (t - self.last_access) > self.recover_cost
        policy == IF self.policy = "Keep" /\ should_discard THEN "Discard" ELSE self.policy
    IN  IF ~access
        THEN [self EXCEPT !.t = t, !.policy = policy,
                          !.accrued_cost = IF policy = "Keep" THEN @ + self.keep_cost ELSE @]
        ELSE [self EXCEPT !.t = t, !.last_access = t,
                          !.accrued_cost = IF policy = "Discard" THEN @ + self.recover_cost ELSE @,
                          !.policy = "Keep"]

two_tier_NaiveInstance_tick(self, access) ==
    LET t == self.t + 1
        should_discard == (t - self.last_access) >= self.recover_cost
        policy == IF self.policy = "Keep" /\ should_discard THEN "Discard" ELSE self.policy
    IN  IF ~access
        THEN [self EXCEPT !.t = t, !.policy = policy,
                          !.accrued_cost = IF policy = "Keep" THEN @ + self.keep_cost ELSE @]
        ELSE [self EXCEPT !.t = t, !.last_access = t,
                          !.accrued_cost = IF policy = "Discard" THEN @ + self.recover_cost ELSE @,
                          !.policy = "Keep"]

\* d: the value karlin::sample(recover_cost) returned at construction
two_tier_KarlinInstance_new(keep_cost, recover_cost, d) ==
    [type |-> "two_tier::KarlinInstance", t |-> 0, last_access |-> 0,
     keep_cost |-> keep_cost, recover_cost |-> recover_cost,
     policy |-> "Keep", accrued_cost |-> 0, t_to_wait_before_discard |-> d]

\* mutant of two_tier_KarlinInstance_tick: `>` for `>=` in should_discard
two_tier_KarlinInstance_tick_gt(self, access, d) ==
    LET t == self.t + 1
        time_elapsed == t - self.last_access
        should_discard == time_elapsed > self.t_to_wait_before_discard
        policy == IF self.policy = "Keep" /\ should_discard THEN "Discard" ELSE self.policy
    IN  IF ~access
        THEN [self EXCEPT !.t = t, !.policy = policy,
                          !.accrued_cost = IF policy = "Keep" THEN @ + self.keep_cost ELSE @]
        ELSE [self EXCEPT !.t = t, !.t_to_wait_before_discard = d, !.last_access = t,
                          !.accrued_cost = IF policy = "Discard" THEN @ + self.recover_cost ELSE @,
                          !.policy = "Keep"]

\* d: the value karlin::sample(self.recover_cost) returns on an access tick
two_tier_KarlinInstance_tick(self, access, d) ==
    LET t == self.t + 1
        time_elapsed == t - self.last_access
        should_discard == time_elapsed >= self.t_to_wait_before_discard
        policy == IF self.policy = "Keep" /\ should_discard THEN "Discard" ELSE self.policy
    IN  IF ~access
        THEN [self EXCEPT !.t = t, !.policy = policy,
                          !.accrued_cost = IF policy = "Keep" THEN @ + self.keep_cost ELSE @]
        ELSE [self EXCEPT !.t = t, !.t_to_wait_before_discard = d, !.last_access = t,
                          !.accrued_cost = IF policy = "Discard" THEN @ + self.recover_cost ELSE @,
                          !.policy = "Keep"]

----------------------------------------------------------------------------
(* src/src/main.rs: the driver's own instances.  They differ from          *)
(* two_tier.rs in charging keep_cost before the `if !access` test, that    *)
(* is, on access ticks too.                                                *)

main_OfflineInstance_new(keep_cost, recover_cost, access_list) ==
    [type |-> "main::OfflineInstance", t |-> 0, access_list |-> access_list,
     keep_cost |-> keep_cost, recover_cost |-> recover_cost,
     accrued_cost |-> 0, policy |-> "Keep"]

\* mutant of main_OfflineInstance_tick: keep_cost is charged after the
\* `if !access` test, as two_tier.rs does, so not on access ticks
main_OfflineInstance_tick_no_access_charge(self, access) ==
    LET t == self.t + 1
        policy == OfflineInstance_lookahead(self, t)
    IN  IF ~access
        THEN [self EXCEPT !.t = t, !.policy = policy,
                          !.accrued_cost = IF policy = "Keep" THEN @ + self.keep_cost ELSE @]
        ELSE [self EXCEPT !.t = t,
                          !.access_list = IF @ = <<>> THEN @ ELSE Tail(@),
                          !.accrued_cost = IF policy = "Discard" THEN @ + self.recover_cost ELSE @,
                          !.policy = "Keep"]

main_OfflineInstance_tick(self, access) ==
    LET t == self.t + 1
        policy == OfflineInstance_lookahead(self, t)
        charged == IF policy = "Keep" THEN self.accrued_cost + self.keep_cost
                   ELSE self.accrued_cost
    IN  IF ~access
        THEN [self EXCEPT !.t = t, !.policy = policy, !.accrued_cost = charged]
        ELSE [self EXCEPT !.t = t,
                          !.access_list = IF @ = <<>> THEN @ ELSE Tail(@),
                          !.accrued_cost = IF policy = "Discard"
                                           THEN charged + self.recover_cost ELSE charged,
                          !.policy = "Keep"]

main_NaiveInstance_new(keep_cost, recover_cost) ==
    [type |-> "main::NaiveInstance", t |-> 0, last_access |-> 0,
     keep_cost |-> keep_cost, recover_cost |-> recover_cost,
     policy |-> "Keep", accrued_cost |-> 0]

main_NaiveInstance_tick(self, access) ==
    LET t == self.t + 1
        should_discard == (t - self.last_access) >= self.recover_cost
        policy == IF self.policy = "Keep" /\ should_discard THEN "Discard" ELSE self.policy
        charged == IF policy = "Keep" THEN self.accrued_cost + self.keep_cost
                   ELSE self.accrued_cost
    IN  IF ~access
        THEN [self EXCEPT !.t = t, !.policy = policy, !.accrued_cost = charged]
        ELSE [self EXCEPT !.t = t, !.last_access = t,
                          !.accrued_cost = IF policy = "Discard"
                                           THEN charged + self.recover_cost ELSE charged,
                          !.policy = "Keep"]

main_KarlinInstance_new(keep_cost, recover_cost, d) ==
    [type |-> "main::KarlinInstance", t |-> 0, last_access |-> 0,
     keep_cost |-> keep_cost, recover_cost |-> recover_cost,
     policy |-> "Keep", accrued_cost |-> 0, t_to_wait_before_discard |-> d]

main_KarlinInstance_tick(self, access, d) ==
    LET t == self.t + 1
        time_elapsed == t - self.last_access
        should_discard == time_elapsed >= self.t_to_wait_before_discard
        policy == IF self.policy = "Keep" /\ should_discard THEN "Discard" ELSE self.policy
        charged == IF policy = "Keep" THEN self.accrued_cost + self.keep_cost
                   ELSE self.accrued_cost
    IN  IF ~access
        THEN [self EXCEPT !.t = t, !.policy = policy, !.accrued_cost = charged]
        ELSE [self EXCEPT !.t = t, !.t_to_wait_before_discard = d, !.last_access = t,
                          !.accrued_cost = IF policy = "Discard"
                                           THEN charged + self.recover_cost ELSE charged,
                          !.policy = "Keep"]

----------------------------------------------------------------------------
(* src/src/three_tier.rs.  Costs are f64; the model holds them in units of *)
(* 1/Scale (Scale = 2: halves), which is exact for every sum the instances *)
(* form.  A comparison against a quotient a/b is decided by cross          *)
(* multiplication, with the sign of b and b = 0 (an infinite quotient)     *)
(* treated as IEEE division treats them.                                   *)

Scale == 2

Costs(keep, compressed, recover_compressed, recover_discard) ==
    [keep_time_cost |-> keep, compressed_time_cost |-> compressed,
     recover_from_compressed_cost |-> recover_compressed,
     recover_from_discard_cost |-> recover_discard]

\* `x as u64` of an f64: truncation toward zero, negative values saturate to 0
as_u64(x) == IF x <= 0 THEN 0 ELSE x \div Scale

\* the two assert!s of KarlinInstance::new and OfflineInstance::new
Costs_asserts(costs) ==
    /\ costs.compressed_time_cost < Scale
    /\ costs.recover_from_compressed_cost < costs.recover_from_discard_cost

\* KarlinInstance::new panics: an assert fails, or karlin::sample(0) is called
three_tier_KarlinInstance_new_panics(costs) ==
    \/ ~Costs_asserts(costs)
    \/ sample(as_u64(costs.recover_from_discard_cost)) = {}
    \/ sample(as_u64(costs.recover_from_compressed_cost)) = {}

\* d = <<wait_before_discard, wait_before_compress>>: the two values sampled
three_tier_KarlinInstance_new(costs, d) ==
    [type |-> "three_tier::KarlinInstance", t |-> 0, costs |-> costs,
     accrued_cost |-> 0, policy |-> "Keep", last_access |-> 0,
     t_to_wait_before_discard |-> d[1], t_to_wait_before_compress |-> d[2]]

\* three_tier.rs:68-77: the policy after the selection step
three_tier_KarlinInstance_select(self, t) ==
    IF self.policy = "Keep"
    THEN LET time_elapsed == t - self.last_access
             should_discard == time_elapsed >= self.t_to_wait_before_discard
             should_compress == time_elapsed >= self.t_to_wait_before_compress
         IN  IF should_discard THEN "Discard"
             ELSE IF should_compress THEN "Compress" ELSE "Keep"
    ELSE self.policy

\* the per-tick charge of three_tier.rs:80-84 / 166-170
time_cost(costs, policy) ==
    CASE policy = "Keep" -> costs.keep_time_cost
      [] policy = "Compress" -> costs.compressed_time_cost
      [] policy = "Discard" -> 0

\* mutant of recovery_cost: a recovery is credited instead of charged
recovery_cost_credited(costs, policy) ==
    CASE policy = "Compress" -> 0 - costs.recover_from_compressed_cost
      [] policy = "Discard" -> 0 - costs.recover_from_discard_cost
      [] policy = "Keep" -> 0

\* the recovery charge of three_tier.rs:93-97 / 178-182
recovery_cost(costs, policy) ==
    CASE policy = "Compress" -> costs.recover_from_compressed_cost
      [] policy = "Discard" -> costs.recover_from_discard_cost
      [] policy = "Keep" -> 0

\* mutant of three_tier_KarlinInstance_tick: the policy is reset to Keep
\* before the recovery charge is looked up, so no recovery is ever charged
three_tier_KarlinInstance_tick_reset_first(self, access, d) ==
    LET t == self.t + 1
        policy == three_tier_KarlinInstance_select(self, t)
    IN  IF ~access
        THEN [self EXCEPT !.t = t, !.policy = policy,
                          !.accrued_cost = @ + time_cost(self.costs, policy)]
        ELSE [self EXCEPT !.t = t, !.last_access = t,
                          !.t_to_wait_before_discard = d[1],
                          !.t_to_wait_before_compress = d[2],
                          !.accrued_cost = @ + recovery_cost(self.costs, "Keep"),
                          !.policy = "Keep"]

three_tier_KarlinInstance_tick(self, access, d) ==
    LET t == self.t + 1
        policy == three_tier_KarlinInstance_select(self, t)
    IN  IF ~access
        THEN [self EXCEPT !.t = t, !.policy = policy,
                          !.accrued_cost = @ + time_cost(self.costs, policy)]
        ELSE [self EXCEPT !.t = t, !.last_access = t,
                          !.t_to_wait_before_discard = d[1],
                          !.t_to_wait_before_compress = d[2],
                          !.accrued_cost = @ + recovery_cost(self.costs, policy),
                          !.policy = "Keep"]

three_tier_OfflineInstance_new(costs, access_list) ==
    [type |-> "three_tier::OfflineInstance", t |-> 0, access_list |-> access_list,
     costs |-> costs, accrued_cost |-> 0, policy |-> "Keep"]

\* next_access <= keep_threshold, keep_threshold being
\* recover_from_compressed_cost / (1.0 - compressed_time_cost); the assert
\* compressed_time_cost < 1.0 makes the divisor positive
le_keep_threshold(costs, n) ==
    n * (Scale - costs.compressed_time_cost) <= costs.recover_from_compressed_cost

\* keep_threshold <= next_access
ge_keep_threshold(costs, n) ==
    costs.recover_from_compressed_cost <= n * (Scale - costs.compressed_time_cost)

\* next_access <= compress_threshold, compress_threshold being
\* (recover_from_discard_cost - recover_from_compressed_cost) / compressed_time_cost;
\* the dividend is positive by the second assert, so the quotient is +inf for a
\* zero divisor and negative for a negative one
le_compress_threshold(costs, n) ==
    LET diff == costs.recover_from_discard_cost - costs.recover_from_compressed_cost
        c == costs.compressed_time_cost
    IN  IF c > 0 THEN n * c <= diff
        ELSE IF c = 0 THEN TRUE
        ELSE n * c >= diff

\* three_tier.rs:147-163: the policy after the selection step; the three
\* `if`s run in sequence, a later one overriding an earlier one
three_tier_OfflineInstance_select(self) ==
    IF self.policy = "Keep"
    THEN LET next_access == Head(self.access_list)
             p1 == IF le_keep_threshold(self.costs, next_access) THEN "Keep" ELSE self.policy
             p2 == IF /\ ge_keep_threshold(self.costs, next_access)
                      /\ le_compress_threshold(self.costs, next_access)
                   THEN "Compress" ELSE p1
             p3 == IF ~le_compress_threshold(self.costs, next_access) THEN "Discard" ELSE p2
         IN  p3
    ELSE self.policy

\* mutant of three_tier_OfflineInstance_tick: no early return on an exhausted
\* cursor; the tick charges and recovers as the two-tier OfflineInstance does
three_tier_OfflineInstance_tick_no_return(self, access) ==
    LET t == self.t + 1
        policy == IF self.access_list = <<>> THEN self.policy
                  ELSE three_tier_OfflineInstance_select(self)
    IN  IF ~access
        THEN [self EXCEPT !.t = t, !.policy = policy,
                          !.accrued_cost = @ + time_cost(self.costs, policy)]
        ELSE [self EXCEPT !.t = t,
                          !.access_list = IF @ = <<>> THEN @ ELSE Tail(@),
                          !.accrued_cost = @ + recovery_cost(self.costs, policy),
                          !.policy = "Keep"]

\* mutant of three_tier_OfflineInstance_tick: the recovery charge is looked up
\* for the policy the tick started with, not for the selected one
three_tier_OfflineInstance_tick_stale_policy(self, access) ==
    LET t == self.t + 1
    IN  IF self.access_list = <<>>
        THEN [self EXCEPT !.t = t]
        ELSE LET policy == three_tier_OfflineInstance_select(self)
             IN  IF ~access
                 THEN [self EXCEPT !.t = t, !.policy = policy,
                                   !.accrued_cost = @ + time_cost(self.costs, policy)]
                 ELSE [self EXCEPT !.t = t, !.access_list = Tail(@),
                                   !.accrued_cost = @ + recovery_cost(self.costs, self.policy),
                                   !.policy = "Keep"]

three_tier_OfflineInstance_tick(self, access) ==
    LET t == self.t + 1
    IN  IF self.access_list = <<>>
        THEN [self EXCEPT !.t = t]
        ELSE LET policy == three_tier_OfflineInstance_select(self)
             IN  IF ~access
                 THEN [self EXCEPT !.t = t, !.policy = policy,
                                   !.accrued_cost = @ + time_cost(self.costs, policy)]
                 ELSE [self EXCEPT !.t = t, !.access_list = Tail(@),
                                   !.accrued_cost = @ + recovery_cost(self.costs, policy),
                                   !.policy = "Keep"]

----------------------------------------------------------------------------
(* trait Algorithm: dispatch on the instance's type.                       *)

\* a binding that holds no instance yet
NoInstance == [type |-> "none"]

\* the result of a tick that draws no sample
NoDraw == <<>>

\* the values karlin::sample can hand to one tick(access) call
Draws(node, access) ==
    IF ~access THEN {NoDraw}
    ELSE CASE node.type \in {"two_tier::KarlinInstance", "main::KarlinInstance"} ->
                sample(node.recover_cost)
           [] node.type = "three_tier::KarlinInstance" ->
                sample(as_u64(node.costs.recover_from_discard_cost))
                    \X sample(as_u64(node.costs.recover_from_compressed_cost))
           [] OTHER -> {NoDraw}

\* an unsigned subtraction of the tick underflows
Algorithm_tick_underflows(node) ==
    CASE node.type \in {"two_tier::OfflineInstance", "main::OfflineInstance"} ->
            OfflineInstance_underflows(node)
      [] node.type \in {"two_tier::NaiveInstance", "main::NaiveInstance",
                        "two_tier::KarlinInstance", "main::KarlinInstance"} ->
            node.t + 1 < node.last_access
      [] node.type = "three_tier::KarlinInstance" ->
            node.policy = "Keep" /\ node.t + 1 < node.last_access
      [] OTHER -> FALSE

Algorithm_tick(node, access, d) ==
    CASE node.type = "two_tier::OfflineInstance" -> two_tier_OfflineInstance_tick(node, access)
      [] node.type = "two_tier::NaiveInstance" -> two_tier_NaiveInstance_tick(node, access)
      [] node.type = "two_tier::KarlinInstance" -> two_tier_KarlinInstance_tick(node, access, d)
      [] node.type = "main::OfflineInstance" -> main_OfflineInstance_tick(node, access)
      [] node.type = "main::NaiveInstance" -> main_NaiveInstance_tick(node, access)
      [] node.type = "main::KarlinInstance" -> main_KarlinInstance_tick(node, access, d)
      [] node.type = "three_tier::OfflineInstance" -> three_tier_OfflineInstance_tick(node, access)
      [] node.type = "three_tier::KarlinInstance" -> three_tier_KarlinInstance_tick(node, access, d)

Algorithm_total_accrued_cost(node) ==
    IF node.type \in {"three_tier::OfflineInstance", "three_tier::KarlinInstance"}
    THEN as_u64(node.accrued_cost)
    ELSE node.accrued_cost

----------------------------------------------------------------------------
(* struct Simulator (src/src/main.rs)                                      *)

Simulator_new(access, node) == [t |-> 0, access |-> access, node |-> node]

\* a binding that holds no Simulator yet
NoSimulator == Simulator_new(<<>>, NoInstance)

\* mutant of Simulator_should_access: the trace is tested before `self.t += 1`
Simulator_should_access_stale(self) == Contains(self.access, self.t)

\* main.rs:128-129: the clock after `self.t += 1` is tested against the trace
Simulator_should_access(self) == Contains(self.access, self.t + 1)

Simulator_tick(self, d) ==
    [self EXCEPT !.t = @ + 1,
                 !.node = Algorithm_tick(self.node, Simulator_should_access(self), d)]

\* `a as f64 / b as f64` of two u64: NaN for 0/0, +inf for a/0, else the quotient
f64_div(a, b) ==
    [class |-> IF b # 0 THEN "finite" ELSE IF a = 0 THEN "NaN" ELSE "inf",
     num |-> a, den |-> b]

\* `r < p/q` and `r == p/q` of a returned ratio r and the decimal p/q (q > 0),
\* as the tests assert them; both are false of NaN and of +inf
f64_lt(r, p, q) == r.class = "finite" /\ r.num * q < p * r.den
f64_eq(r, p, q) == r.class = "finite" /\ r.num * q = p * r.den

(* One `sim.tick()` of a `for _ in 0..num_ticks` loop.  The loop has run    *)
(* sim.t times, the Simulator being fresh when the loop starts.  With      *)
(* overflow checks (dev and test profiles) an underflowing subtraction     *)
(* panics; without them it wraps and the tick goes on.                     *)
SimTick ==
    /\ pc \in {"offline", "online"}
    /\ sim.t < args.num_ticks
    /\ LET access == Simulator_should_access(sim)
           underflows == Algorithm_tick_underflows(sim.node)
       IN  \E overflow_checks \in IF underflows THEN BOOLEAN ELSE {TRUE} :
           IF \/ underflows /\ overflow_checks
              \/ Draws(sim.node, access) = {}
           THEN /\ pc' = "panic"
                /\ UNCHANGED <<sim, tick_calls>>
           ELSE \E d \in Draws(sim.node, access) :
                /\ sim' = Simulator_tick(sim, d)
                /\ tick_calls' = Append(tick_calls, access)
                /\ pc' = pc
    /\ UNCHANGED <<args, instance, offline_cost, online_cost, ratio>>

----------------------------------------------------------------------------
(* two_tier::calculate_competitive_ratio                                   *)

\* two_tier.rs:192-195: the offline loop is over
calc_offline_done ==
    /\ pc = "offline"
    /\ sim.node.type = "two_tier::OfflineInstance"
    /\ sim.t = args.num_ticks
    /\ offline_cost' = Algorithm_total_accrued_cost(sim.node)
    /\ sim' = Simulator_new(args.access_list, instance)
    /\ tick_calls' = <<>>
    /\ pc' = "online"
    /\ UNCHANGED <<args, instance, online_cost, ratio>>

\* two_tier.rs:199-202: the online loop is over
calc_online_done ==
    /\ pc = "online"
    /\ sim.node.type \in {"two_tier::NaiveInstance", "two_tier::KarlinInstance"}
    /\ sim.t = args.num_ticks
    /\ online_cost' = Algorithm_total_accrued_cost(sim.node)
    /\ ratio' = f64_div(online_cost', offline_cost)
    /\ pc' = "done"
    /\ UNCHANGED <<args, instance, sim, tick_calls, offline_cost>>

\* the state on entry to the first loop (two_tier.rs:183-188), the caller
\* having built the online instance
calc_entry(online, keep_cost, recover_cost, access_list, num_ticks) ==
    /\ pc = "offline"
    /\ args = [keep_cost |-> keep_cost, recover_cost |-> recover_cost,
               access_list |-> access_list, num_ticks |-> num_ticks]
    /\ instance = online
    /\ sim = Simulator_new(access_list,
                 two_tier_OfflineInstance_new(keep_cost, recover_cost, access_list))
    /\ tick_calls = <<>>
    /\ offline_cost = 0
    /\ online_cost = 0
    /\ ratio = f64_div(0, 0)

\* the online instances a caller can build
two_tier_online(keep_cost, recover_cost) ==
    {two_tier_NaiveInstance_new(keep_cost, recover_cost)}
    \cup {two_tier_KarlinInstance_new(keep_cost, recover_cost, d) : d \in sample(recover_cost)}

NextCalc == SimTick \/ calc_offline_done \/ calc_online_done

\* the tests two_competitive and randomized_competitive (two_tier.rs:209-239)
InitTest ==
    \E online \in two_tier_online(1, 3) : calc_entry(online, 1, 3, <<4, 8, 12>>, 11)

SpecTest == InitTest /\ [][NextCalc]_vars

\* every call within the bounds
InitCalc ==
    \E keep_cost \in 1..MaxKeep, recover_cost \in 1..MaxRecover :
    \E access_list \in generate_access_list(MaxTick), num_ticks \in 0..MaxNumTicks :
    \E online \in two_tier_online(keep_cost, recover_cost) :
        calc_entry(online, keep_cost, recover_cost, access_list, num_ticks)

SpecCalc == InitCalc /\ [][NextCalc]_vars

----------------------------------------------------------------------------
(* Claims about two_tier::calculate_competitive_ratio.                     *)

returned_by(type) == pc = "done" /\ instance.type = type

\* C1: with keep_cost=1, recover_cost=3, trace=[4,8,12] and num_ticks=11 the
\* calculator returns exactly 2.0 for a NaiveInstance: the Naive cost is twice
\* the Offline cost, which is not zero.
C1_NaiveRatioIsTwo ==
    returned_by("two_tier::NaiveInstance") =>
        /\ f64_eq(ratio, 2, 1)
        /\ online_cost = 2 * offline_cost
        /\ offline_cost # 0

\* C1 witness: the test's call has returned, with costs 12 and 6
C1_Witness ==
    /\ returned_by("two_tier::NaiveInstance")
    /\ args.access_list = <<4, 8, 12>> /\ args.num_ticks = 11
    /\ online_cost = 12 /\ offline_cost = 6

\* C2 (as claimed): for every trace, cost pair and tick count the Naive
\* instance's accrued cost is at most twice the Offline instance's.
C2_NaiveTwoCompetitive ==
    returned_by("two_tier::NaiveInstance") => online_cost <= 2 * offline_cost

\* C3 (as claimed): for every trace, cost pair and tick count the Offline
\* instance's accrued cost is at most the online instance's (Naive, and Karlin
\* under every outcome of its samples).
C3_OfflineOptimal ==
    pc = "done" => offline_cost <= online_cost

\* C4 (as claimed): in the test's scenario the ratio of a KarlinInstance is
\* below 1.67 for every sequence of sampled thresholds.
C4_KarlinBelow167 ==
    returned_by("two_tier::KarlinInstance") => f64_lt(ratio, 167, 100)

\* C8 (as claimed): for an empty trace the Offline instance's total cost is 0
\* whatever the tick count, and the returned ratio is infinite or NaN.
C8_EmptyTraceZeroOffline ==
    args.access_list = <<>> =>
        /\ pc \in {"online", "done"} => offline_cost = 0
        /\ pc = "done" => ratio.class \in {"inf", "NaN"}

----------------------------------------------------------------------------
(* src/src/main.rs: compare_deterministic_approach and                     *)
(* compare_randomized_approach, called as main() calls them.               *)

\* the state on entry to the first loop (main.rs:53-58 and 83-88)
compare_entry(approach, keep_cost, recover_cost, access_list, num_ticks) ==
    /\ pc = "offline"
    /\ args = [approach |-> approach, keep_cost |-> keep_cost,
               recover_cost |-> recover_cost,
               access_list |-> access_list, num_ticks |-> num_ticks]
    /\ instance = NoInstance
    /\ sim = Simulator_new(access_list,
                 main_OfflineInstance_new(keep_cost, recover_cost, access_list))
    /\ tick_calls = <<>>
    /\ offline_cost = 0
    /\ online_cost = 0
    /\ ratio = f64_div(0, 0)

\* main.rs:62-66
compare_deterministic_offline_done ==
    /\ pc = "offline"
    /\ args.approach = "deterministic"
    /\ sim.t = args.num_ticks
    /\ offline_cost' = sim.node.accrued_cost
    /\ instance' = main_NaiveInstance_new(args.keep_cost, args.recover_cost)
    /\ sim' = Simulator_new(args.access_list, instance')
    /\ tick_calls' = <<>>
    /\ pc' = "online"
    /\ UNCHANGED <<args, online_cost, ratio>>

\* main.rs:70-73
compare_deterministic_online_done ==
    /\ pc = "online"
    /\ args.approach = "deterministic"
    /\ sim.t = args.num_ticks
    /\ online_cost' = sim.node.accrued_cost
    /\ ratio' = f64_div(online_cost', offline_cost)
    /\ pc' = "done"
    /\ UNCHANGED <<args, instance, sim, tick_calls, offline_cost>>

\* main.rs:92-96
compare_randomized_offline_done ==
    /\ pc = "offline"
    /\ args.approach = "randomized"
    /\ sim.t = args.num_ticks
    /\ offline_cost' = sim.node.accrued_cost
    /\ \E d \in sample(args.recover_cost) :
          instance' = main_KarlinInstance_new(args.keep_cost, args.recover_cost, d)
    /\ sim' = Simulator_new(args.access_list, instance')
    /\ tick_calls' = <<>>
    /\ pc' = "online"
    /\ UNCHANGED <<args, online_cost, ratio>>

\* main.rs:100-103
compare_randomized_online_done ==
    /\ pc = "online"
    /\ args.approach = "randomized"
    /\ sim.t = args.num_ticks
    /\ online_cost' = sim.node.accrued_cost
    /\ ratio' = f64_div(online_cost', offline_cost)
    /\ pc' = "done"
    /\ UNCHANGED <<args, instance, sim, tick_calls, offline_cost>>

NextMain ==
    \/ SimTick
    \/ compare_deterministic_offline_done
    \/ compare_deterministic_online_done
    \/ compare_randomized_offline_done
    \/ compare_randomized_online_done

\* main(): keep_cost is 1, the trace is a non-empty generate_access_list
\* result and num_ticks is its last element; recover_cost ranges over the
\* bound instead of the one value main() fixes
InitMain ==
    \E approach \in {"deterministic", "randomized"}, recover_cost \in 1..MaxRecover :
    \E access_list \in generate_access_list(MaxTick) \ {<<>>} :
        compare_entry(approach, 1, recover_cost, access_list, Last(access_list))

SpecMain == InitMain /\ [][NextMain]_vars

\* C9: in the driver variant (keep_cost = 1, non-empty trace, num_ticks the
\* trace's last tick) compare_deterministic_approach never returns a ratio
\* above 2: the Naive cost is at most twice the Offline cost.
C9_DriverNaiveTwoCompetitive ==
    (pc = "done" /\ args.approach = "deterministic") =>
        /\ online_cost <= 2 * offline_cost
        /\ ratio.class = "finite" /\ ratio.num <= 2 * ratio.den

\* C9 witness: a returned deterministic comparison in which the Naive instance
\* paid for keeping and for a recovery, one short of twice the Offline cost
C9_Witness ==
    /\ pc = "done" /\ args.approach = "deterministic"
    /\ offline_cost >= 2
    /\ online_cost = 2 * offline_cost - 1

\* C10: every Simulator.tick() advances the Simulator clock by exactly 1 and
\* calls the instance's tick once, with access = TRUE iff the new clock value
\* is in the trace; so after k ticks the instance's clock equals the
\* Simulator's and the instance saw access = TRUE exactly at the trace's ticks
\* in 1..k.
C10_SimulatorContract ==
    /\ [](/\ sim.node.t = sim.t
          /\ Len(tick_calls) = sim.t
          /\ \A k \in 1..sim.t : tick_calls[k] <=> Contains(args.access_list, k))
    /\ [][sim' # sim =>
            \/ /\ sim'.t = sim.t + 1
               /\ sim'.node.t = sim.node.t + 1
               /\ tick_calls' = Append(tick_calls, Contains(args.access_list, sim'.t))
            \/ sim'.t = 0 /\ tick_calls' = <<>>]_vars

\* C10 witness: a Simulator that has ticked past an access tick and past a
\* tick without access
C10_Witness ==
    /\ sim.t >= 2
    /\ sim.node.t = sim.t
    /\ \E i, j \in 1..sim.t : tick_calls[i] /\ ~tick_calls[j]

----------------------------------------------------------------------------
(* three_tier.rs: the test three_tier_instance builds a KarlinInstance and *)
(* hands it to three_tier::calculate_competitive_ratio.                    *)

\* the state before the caller builds the online instance
three_tier_entry(costs, access_list, num_ticks) ==
    /\ pc = "new_online"
    /\ args = [costs |-> costs, access_list |-> access_list, num_ticks |-> num_ticks]
    /\ instance = NoInstance
    /\ sim = NoSimulator
    /\ tick_calls = <<>>
    /\ offline_cost = 0
    /\ online_cost = 0
    /\ ratio = f64_div(0, 0)

\* three_tier.rs:16, KarlinInstance::new (three_tier.rs:44-60)
three_tier_new_online ==
    /\ pc = "new_online"
    /\ IF three_tier_KarlinInstance_new_panics(args.costs)
       THEN pc' = "panic" /\ UNCHANGED instance
       ELSE /\ \E d \in sample(as_u64(args.costs.recover_from_discard_cost))
                        \X sample(as_u64(args.costs.recover_from_compressed_cost)) :
                 instance' = three_tier_KarlinInstance_new(args.costs, d)
            /\ pc' = "new_offline"
    /\ UNCHANGED <<args, sim, tick_calls, offline_cost, online_cost, ratio>>

\* three_tier.rs:197-198, OfflineInstance::new (three_tier.rs:121-133)
three_tier_calc_start ==
    /\ pc = "new_offline"
    /\ IF ~Costs_asserts(args.costs)
       THEN pc' = "panic" /\ UNCHANGED sim
       ELSE /\ sim' = Simulator_new(args.access_list,
                          three_tier_OfflineInstance_new(args.costs, args.access_list))
            /\ pc' = "offline"
    /\ UNCHANGED <<args, instance, tick_calls, offline_cost, online_cost, ratio>>

\* three_tier.rs:202-205
three_tier_calc_offline_done ==
    /\ pc = "offline"
    /\ sim.node.type = "three_tier::OfflineInstance"
    /\ sim.t = args.num_ticks
    /\ offline_cost' = Algorithm_total_accrued_cost(sim.node)
    /\ sim' = Simulator_new(args.access_list, instance)
    /\ tick_calls' = <<>>
    /\ pc' = "online"
    /\ UNCHANGED <<args, instance, online_cost, ratio>>

\* three_tier.rs:209-212
three_tier_calc_online_done ==
    /\ pc = "online"
    /\ sim.node.type = "three_tier::KarlinInstance"
    /\ sim.t = args.num_ticks
    /\ online_cost' = Algorithm_total_accrued_cost(sim.node)
    /\ ratio' = f64_div(online_cost', offline_cost)
    /\ pc' = "done"
    /\ UNCHANGED <<args, instance, sim, tick_calls, offline_cost>>

NextThree ==
    \/ three_tier_new_online
    \/ three_tier_calc_start
    \/ SimTick
    \/ three_tier_calc_offline_done
    \/ three_tier_calc_online_done

\* the test three_tier_instance (three_tier.rs:8-18): keep 1.0, compressed
\* 0.5, recover from compressed 2.0, recover from discard 3.0
InitTest3 ==
    three_tier_entry(Costs(Scale, 1, 2 * Scale, 3 * Scale), <<4, 8, 12>>, 12)

SpecTest3 == InitTest3 /\ [][NextThree]_vars

\* largest keep_time_cost and compressed_time_cost enumerated, in units of 1/Scale
MaxTimeCost == 2
\* largest recovery cost enumerated, in units of 1/Scale
MaxRecoveryCost == 4
\* largest tick in a three-tier trace; num_ticks goes one further
MaxTick3 == 4

\* every Costs value within the bounds, negative compressed cost included
InitThree ==
    \E keep \in 1..MaxTimeCost, compressed \in -1..MaxTimeCost :
    \E recover_compressed \in 1..MaxRecoveryCost, recover_discard \in 1..MaxRecoveryCost :
    \E access_list \in generate_access_list(MaxTick3), num_ticks \in 0..(MaxTick3 + 1) :
        three_tier_entry(Costs(keep, compressed, recover_compressed, recover_discard),
                         access_list, num_ticks)

SpecThree == InitThree /\ [][NextThree]_vars

\* C5: in the test's scenario neither construction nor the calculator panics,
\* and the returned ratio is a number >= 1 for every outcome of the samples.
C5_ThreeTierScenario ==
    /\ pc # "panic"
    /\ pc = "done" => ratio.class = "finite" /\ ratio.num >= ratio.den

\* C5 witness: the scenario's call has returned after an online run whose
\* accrued cost is fractional and whose thresholds were both positive
C5_Witness ==
    /\ pc = "done"
    /\ args.num_ticks = 12
    /\ sim.node.accrued_cost % Scale # 0
    /\ instance.t_to_wait_before_discard > 0
    /\ online_cost >= offline_cost /\ offline_cost > 0

\* the constraints on Costs the specification states
Costs_constraints(costs) ==
    /\ 0 <= costs.compressed_time_cost
    /\ costs.compressed_time_cost < costs.keep_time_cost
    /\ costs.recover_from_compressed_cost < costs.recover_from_discard_cost

\* C6 (as claimed): construction fails for every Costs value that violates
\* 0 <= compress_cost < keep_cost or recover_from_compress_cost <
\* recover_from_discard_cost; no instance with such costs is ever ticked.
C6_CostsValidated ==
    pc \in {"new_offline", "offline", "online", "done"} => Costs_constraints(args.costs)

\* keep_threshold <= compress_threshold: the three cases of the claimed
\* selection do not overlap
thresholds_ordered(costs) ==
    LET diff == costs.recover_from_discard_cost - costs.recover_from_compressed_cost
        c == costs.compressed_time_cost
    IN  c = 0 \/ (c > 0 /\ costs.recover_from_compressed_cost * c <= diff * (Scale - c))

\* C7 (as claimed): on a tick at which the Offline instance is Keep and a
\* future access exists, with delta = next access tick - current tick, the
\* selection step yields Keep when delta <= keep_threshold, Compress when
\* keep_threshold < delta <= compress_threshold, Discard when
\* delta > compress_threshold.  Stated for costs that meet the constraints of
\* the specification and order the two thresholds.
C7_OfflineSelection ==
    (/\ pc = "offline" /\ sim.t < args.num_ticks
     /\ sim.node.policy = "Keep" /\ sim.node.access_list # <<>>
     /\ Costs_constraints(sim.node.costs) /\ thresholds_ordered(sim.node.costs)) =>
        LET delta == Head(sim.node.access_list) - (sim.node.t + 1)
            selected == three_tier_OfflineInstance_select(sim.node)
            costs == sim.node.costs
        IN  /\ le_keep_threshold(costs, delta) => selected = "Keep"
            /\ (~le_keep_threshold(costs, delta) /\ le_compress_threshold(costs, delta))
                   => selected = "Compress"
            /\ ~le_compress_threshold(costs, delta) => selected = "Discard"

----------------------------------------------------------------------------
(* trait Algorithm called directly: a caller owns one instance and calls   *)
(* tick(access) on it with flags of its own choosing, as Simulator::tick   *)
(* does at main.rs:130 with the flag it computed.                          *)

\* largest number of tick(access) calls made on one instance
MaxCalls == 4

\* the two-tier instances the constructors build (recover_cost 0 included:
\* KarlinInstance::new then panics in karlin::sample and builds nothing)
two_tier_instances ==
    UNION {{two_tier_NaiveInstance_new(keep_cost, recover_cost)}
           \cup {two_tier_KarlinInstance_new(keep_cost, recover_cost, d) :
                     d \in sample(recover_cost)}
           \cup {two_tier_OfflineInstance_new(keep_cost, recover_cost, access_list) :
                     access_list \in generate_access_list(MaxTick)} :
           keep_cost \in 0..MaxKeep, recover_cost \in 0..MaxRecover}

\* the Costs values within the bounds that pass the constructors' asserts
three_tier_costs ==
    {costs \in {Costs(keep, compressed, recover_compressed, recover_discard) :
                    keep \in 1..MaxTimeCost, compressed \in -1..MaxTimeCost,
                    recover_compressed \in 1..MaxRecoveryCost,
                    recover_discard \in 1..MaxRecoveryCost} :
        Costs_asserts(costs)}

\* the three-tier instances the constructors build
three_tier_instances ==
    UNION {{three_tier_OfflineInstance_new(costs, access_list) :
                access_list \in generate_access_list(MaxTick3)}
           \cup {three_tier_KarlinInstance_new(costs, d) :
                     d \in sample(as_u64(costs.recover_from_discard_cost))
                           \X sample(as_u64(costs.recover_from_compressed_cost))} :
           costs \in three_tier_costs}

\* one `instance.tick(access)`; an underflowing subtraction panics with
\* overflow checks and wraps without them, as in SimTick
tick_call ==
    /\ pc = "ticking"
    /\ instance.t < args.num_ticks
    /\ \E access \in BOOLEAN :
       LET underflows == Algorithm_tick_underflows(instance)
       IN  \E overflow_checks \in IF underflows THEN BOOLEAN ELSE {TRUE} :
           IF underflows /\ overflow_checks
           THEN /\ pc' = "panic"
                /\ UNCHANGED <<instance, tick_calls>>
           ELSE \E d \in Draws(instance, access) :
                /\ instance' = Algorithm_tick(instance, access, d)
                /\ tick_calls' = Append(tick_calls, access)
                /\ pc' = pc
    /\ UNCHANGED <<args, sim, offline_cost, online_cost, ratio>>

NextTick == tick_call

\* a freshly constructed instance of any of the five variants
InitTick ==
    /\ pc = "ticking"
    /\ args = [num_ticks |-> MaxCalls]
    /\ instance \in two_tier_instances \cup three_tier_instances
    /\ sim = NoSimulator
    /\ tick_calls = <<>>
    /\ offline_cost = 0
    /\ online_cost = 0
    /\ ratio = f64_div(0, 0)

SpecTick == InitTick /\ [][NextTick]_vars

\* every cost of the instance is >= 0
costs_non_negative(node) ==
    IF node.type \in {"three_tier::OfflineInstance", "three_tier::KarlinInstance"}
    THEN /\ node.costs.keep_time_cost >= 0
         /\ node.costs.compressed_time_cost >= 0
         /\ node.costs.recover_from_compressed_cost >= 0
         /\ node.costs.recover_from_discard_cost >= 0
    ELSE node.keep_cost >= 0 /\ node.recover_cost >= 0

\* C11: every instance starts with t = 0, accrued_cost = 0 and policy Keep,
\* and when its costs are non-negative no tick(access) call, whatever the flag,
\* lowers accrued_cost.
C11_AccruedCostMonotone ==
    /\ [](instance.t = 0 => instance.accrued_cost = 0 /\ instance.policy = "Keep")
    /\ [][costs_non_negative(instance) =>
              instance'.accrued_cost >= instance.accrued_cost]_vars

\* C11 witness: an instance with non-negative costs has been ticked to the
\* bound with both flags, has accrued a cost and has left Keep
C11_Witness ==
    /\ pc = "ticking"
    /\ costs_non_negative(instance)
    /\ instance.t = MaxCalls
    /\ \E i, j \in 1..Len(tick_calls) : tick_calls[i] /\ ~tick_calls[j]
    /\ instance.accrued_cost > 0
    /\ instance.policy # "Keep"

\* C12: karlin::sample(c) returns only integers of 0..c for c >= 1, so a
\* two-tier KarlinInstance always has 0 <= t_to_wait_before_discard <=
\* recover_cost, and it is never in Keep at the end of a tick at which
\* t - last_access >= recover_cost.
C12_ThresholdInRange ==
    /\ \A c \in 1..MaxRecover : sample(c) \subseteq 0..c
    /\ instance.type = "two_tier::KarlinInstance" =>
           /\ 0 <= instance.t_to_wait_before_discard
           /\ instance.t_to_wait_before_discard <= instance.recover_cost
           /\ instance.t - instance.last_access >= instance.recover_cost
                  => instance.policy # "Keep"

\* C12 witness: after an access resampled the threshold to recover_cost itself,
\* the elapsed time has reached recover_cost and the instance is in Discard
C12_Witness ==
    /\ pc = "ticking"
    /\ instance.type = "two_tier::KarlinInstance"
    /\ instance.last_access > 0
    /\ instance.t_to_wait_before_discard = instance.recover_cost
    /\ instance.t - instance.last_access >= instance.recover_cost
    /\ instance.policy = "Discard"

\* C14: a tick of the two-tier OfflineInstance that ends in Discard, the tick
\* that moves it from Keep to Discard included, leaves accrued_cost as it was:
\* the transition is decided before the charge, and keep_cost is not charged.
C14_OfflineNoChargeOnDiscard ==
    [][(/\ instance.type = "two_tier::OfflineInstance"
        /\ instance'.t = instance.t + 1
        /\ instance'.policy = "Discard") =>
            instance'.accrued_cost = instance.accrued_cost]_vars

\* C14 witness: the instance kept for one tick and paid keep_cost >= 1, was
\* accessed, and moved to Discard on the next tick without paying again
C14_Witness ==
    /\ pc = "ticking"
    /\ instance.type = "two_tier::OfflineInstance"
    /\ tick_calls = <<FALSE, TRUE, FALSE>>
    /\ instance.policy = "Discard"
    /\ instance.keep_cost >= 1
    /\ instance.accrued_cost = instance.keep_cost

\* C15 (as claimed): on every tick of the two-tier OfflineInstance, with or
\* without an access, at which the policy is Keep after the look-ahead step,
\* accrued_cost grows by keep_cost.
C15_OfflineKeepCharge ==
    [][(/\ pc = "offline" /\ pc' = "offline"
        /\ sim.node.type = "two_tier::OfflineInstance"
        /\ sim'.t = sim.t + 1
        /\ OfflineInstance_lookahead(sim.node, sim.node.t + 1) = "Keep") =>
            sim'.node.accrued_cost = sim.node.accrued_cost + sim.node.keep_cost]_vars

\* C16: on every tick(true) of a three-tier KarlinInstance, and of a three-tier
\* OfflineInstance whose cursor is not exhausted, accrued_cost grows by exactly
\* recover_from_compressed_cost if the policy after the selection step is
\* Compress, by exactly recover_from_discard_cost if it is Discard and by 0 if
\* it is Keep, and the tick ends with policy Keep.
C16_ThreeTierAccess ==
    [][(/\ instance.type \in {"three_tier::KarlinInstance", "three_tier::OfflineInstance"}
        /\ instance'.t = instance.t + 1
        /\ Len(tick_calls') = Len(tick_calls) + 1 /\ Last(tick_calls')
        /\ instance.type = "three_tier::OfflineInstance" => instance.access_list # <<>>) =>
            LET selected == IF instance.type = "three_tier::KarlinInstance"
                            THEN three_tier_KarlinInstance_select(instance, instance.t + 1)
                            ELSE three_tier_OfflineInstance_select(instance)
                charged == instance'.accrued_cost - instance.accrued_cost
            IN  /\ selected = "Compress" =>
                       charged = instance.costs.recover_from_compressed_cost
                /\ selected = "Discard" =>
                       charged = instance.costs.recover_from_discard_cost
                /\ selected = "Keep" => charged = 0
                /\ instance'.policy = "Keep"]_vars

\* C16 witness: an OfflineInstance that was selected into Compress or Discard
\* on its first access tick has paid exactly one recovery and is back in Keep
C16_Witness ==
    /\ pc = "ticking"
    /\ instance.type = "three_tier::OfflineInstance"
    /\ tick_calls = <<TRUE>>
    /\ instance.policy = "Keep"
    /\ instance.accrued_cost \in {instance.costs.recover_from_compressed_cost,
                                  instance.costs.recover_from_discard_cost}

\* C17: once the cursor of the three-tier OfflineInstance is exhausted (the
\* trace was empty or its last element has been consumed), a tick changes
\* neither policy nor accrued_cost, whatever its flag; only t advances.
C17_OfflineExhausted ==
    [][(/\ instance.type = "three_tier::OfflineInstance"
        /\ instance.access_list = <<>>
        /\ Len(tick_calls') = Len(tick_calls) + 1) =>
            instance' = [instance EXCEPT !.t = @ + 1]]_vars

\* C17 witness: the only element of the trace was consumed by a tick that paid
\* a recovery, and two more ticks, one with each flag, have run since
C17_Witness ==
    /\ pc = "ticking"
    /\ instance.type = "three_tier::OfflineInstance"
    /\ instance.access_list = <<>>
    /\ tick_calls = <<TRUE, FALSE, TRUE>>
    /\ instance.t = 3
    /\ instance.accrued_cost > 0

\* C18 (as claimed): in every gap between accesses of the three-tier
\* KarlinInstance the policy is Discard from the tick at which the time elapsed
\* since last_access reaches t_to_wait_before_discard, and it is Compress on
\* the ticks before that at which t_to_wait_before_compress has been reached.
C18_KarlinReachesDiscard ==
    (/\ pc = "online"
     /\ sim.node.type = "three_tier::KarlinInstance"
     /\ sim.node.t - sim.node.last_access >= 1) =>
        LET time_elapsed == sim.node.t - sim.node.last_access
        IN  /\ time_elapsed >= sim.node.t_to_wait_before_discard =>
                   sim.node.policy = "Discard"
            /\ (/\ time_elapsed >= sim.node.t_to_wait_before_compress
                /\ time_elapsed < sim.node.t_to_wait_before_discard) =>
                   sim.node.policy = "Compress"

\* three_tier.rs:199-201: `for _ in 0..num_ticks { sim.tick() }` run to its end
\* over an instance that draws no sample
RECURSIVE Simulator_run(_, _)
Simulator_run(self, num_ticks) ==
    IF num_ticks = 0 THEN self
    ELSE Simulator_run(Simulator_tick(self, NoDraw), num_ticks - 1)

\* the accrued_cost field of the Offline instance when its loop is over
offline_accrued_cost ==
    Simulator_run(Simulator_new(args.access_list,
                      three_tier_OfflineInstance_new(args.costs, args.access_list)),
                  args.num_ticks).node.accrued_cost

\* C19 (as claimed): the three-tier calculator returns the online instance's
\* accrued_cost divided by the offline instance's accrued_cost, fractional
\* accrued costs included.
C19_RatioOfAccruedCosts ==
    pc = "done" =>
        LET online == sim.node.accrued_cost
            offline == offline_accrued_cost
        IN  IF offline = 0
            THEN ratio.class = IF online = 0 THEN "NaN" ELSE "inf"
            ELSE ratio.class = "finite" /\ ratio.num * offline = ratio.den * online

\* C20: for recover_cost >= 1 the two-tier NaiveInstance, after any sequence of
\* tick(access) calls, is in Keep only while t - last_access < recover_cost:
\* from the tick at which the elapsed time reaches recover_cost until the next
\* access it is in Discard.
C20_NaiveNeverOverWaits ==
    (instance.type = "two_tier::NaiveInstance" /\ instance.recover_cost >= 1) =>
        /\ instance.policy = "Keep" => instance.t - instance.last_access < instance.recover_cost
        /\ instance.t - instance.last_access >= instance.recover_cost =>
               instance.policy = "Discard"

\* C20 witness: after an access the instance kept until the elapsed time
\* reached recover_cost >= 2 and is in Discard at exactly that tick
C20_Witness ==
    /\ pc = "ticking"
    /\ instance.type = "two_tier::NaiveInstance"
    /\ instance.recover_cost >= 2
    /\ instance.last_access > 0
    /\ instance.t - instance.last_access = instance.recover_cost
    /\ instance.policy = "Discard"
    /\ instance.accrued_cost > 0

----------------------------------------------------------------------------
(* Claims about the two-tier instances under the calculator's Simulator.   *)

\* C21: with the Simulator and the two-tier OfflineInstance built from the
\* same strictly increasing trace of positive ticks, the cursor holds exactly
\* the trace elements above the clock, so at every tick its head is >= the
\* incremented t and `elem - self.t` does not underflow; in the Naive and
\* Karlin instances last_access <= t, so `t - last_access` does not underflow;
\* no run panics.
C21_NoUnderflow ==
    /\ pc # "panic"
    /\ pc \in {"offline", "online"} =>
           /\ sim.node.t = sim.t
           /\ sim.node.type = "two_tier::OfflineInstance" =>
                  /\ sim.node.access_list =
                         SelectSeq(args.access_list, LAMBDA elem : elem > sim.node.t)
                  /\ sim.node.access_list # <<>> =>
                         Head(sim.node.access_list) >= sim.node.t + 1
           /\ sim.node.type \in {"two_tier::NaiveInstance", "two_tier::KarlinInstance"} =>
                  sim.node.last_access <= sim.node.t
           /\ ~Algorithm_tick_underflows(sim.node)

\* C21 witness: the Offline instance has consumed an access, is in Keep, and
\* the head of its cursor is the very next tick, where `elem - self.t` is 0
C21_Witness ==
    /\ pc = "offline"
    /\ sim.t < args.num_ticks
    /\ sim.node.policy = "Keep"
    /\ sim.node.access_list # <<>>
    /\ Len(sim.node.access_list) < Len(args.access_list)
    /\ Head(sim.node.access_list) = sim.node.t + 1

\* C22: in a run of the two-tier OfflineInstance with recover_cost >= 1 over a
\* strictly increasing positive trace, a tick moves the instance from Keep to
\* Discard only if it is tick 1 or the tick right after an access tick, so an
\* instance still in Keep after that tick stays in Keep until the next access;
\* an access tick met in Keep pays no recovery; and once the last access is
\* consumed (or the trace is empty) the instance is in Keep for good.
C22_OfflineDecidesOncePerGap ==
    /\ [](/\ pc = "offline"
          /\ sim.node.type = "two_tier::OfflineInstance"
          /\ sim.node.recover_cost >= 1
          /\ sim.node.access_list = <<>>
          => sim.node.policy = "Keep")
    /\ [][(/\ pc = "offline" /\ pc' = "offline"
           /\ sim.node.type = "two_tier::OfflineInstance"
           /\ sim.node.recover_cost >= 1
           /\ sim'.t = sim.t + 1
           /\ sim.node.policy = "Keep") =>
               /\ sim'.node.policy = "Discard" =>
                      sim'.t = 1 \/ Last(tick_calls)
               /\ Last(tick_calls') =>
                      sim'.node.accrued_cost = sim.node.accrued_cost]_vars

\* C22 witness: the instance kept through a whole gap, paying keep_cost on
\* each of its ticks, was accessed, and moved to Discard on the tick right
\* after that access
C22_Witness ==
    /\ pc = "offline"
    /\ sim.node.type = "two_tier::OfflineInstance"
    /\ Len(tick_calls) >= 3
    /\ ~tick_calls[1]
    /\ tick_calls[Len(tick_calls) - 1] /\ ~Last(tick_calls)
    /\ sim.node.policy = "Discard"
    /\ sim.node.accrued_cost = sim.node.keep_cost * (Len(tick_calls) - 2)

----------------------------------------------------------------------------
(* The two-tier KarlinInstance against the NaiveInstance.                  *)

\* a NaiveInstance built with the given costs after the tick(access) calls
\* whose flags are `calls`, in order
RECURSIVE NaiveInstance_after(_, _, _)
NaiveInstance_after(keep_cost, recover_cost, calls) ==
    IF calls = <<>> THEN two_tier_NaiveInstance_new(keep_cost, recover_cost)
    ELSE two_tier_NaiveInstance_tick(
             NaiveInstance_after(keep_cost, recover_cost, SubSeq(calls, 1, Len(calls) - 1)),
             Last(calls))

\* the fields the two instances have in common
observed(node) == <<node.t, node.policy, node.accrued_cost, node.last_access>>

\* the threshold the KarlinInstance holds is recover_cost
threshold_is_recover_cost ==
    instance.type = "two_tier::KarlinInstance" =>
        instance.t_to_wait_before_discard = instance.recover_cost

\* C23: a two-tier KarlinInstance all of whose sampled thresholds, the one of
\* the constructor included, equal recover_cost has after every sequence of
\* tick(access) calls the t, policy, accrued_cost and last_access of a
\* NaiveInstance with the same costs after the same calls.
C23_KarlinRefinesNaive ==
    []threshold_is_recover_cost =>
        [](instance.type = "two_tier::KarlinInstance" =>
               observed(instance) =
                   observed(NaiveInstance_after(instance.keep_cost,
                                                instance.recover_cost, tick_calls)))

\* C23 witness: a KarlinInstance holding the threshold recover_cost >= 2 has
\* been called to the bound, kept, discarded at the threshold and recovered on
\* an access, and agrees with the NaiveInstance after the same calls
C23_Witness ==
    /\ pc = "ticking"
    /\ instance.type = "two_tier::KarlinInstance"
    /\ instance.recover_cost >= 2 /\ instance.keep_cost >= 1
    /\ instance.t_to_wait_before_discard = instance.recover_cost
    /\ instance.t = MaxCalls
    /\ instance.last_access = MaxCalls
    /\ instance.accrued_cost = instance.keep_cost * (instance.recover_cost - 1)
                                   + instance.recover_cost
    /\ observed(instance) =
           observed(NaiveInstance_after(instance.keep_cost, instance.recover_cost,
                                        tick_calls))

====
